---- MODULE Spec2Model ----
(***************************************************************************)
(* Model of Window (src/window/Window.cpp, src/window/Window.h): the GLFW  *)
(* window / Vulkan instance bootstrap, its event loop and its teardown.    *)
(* Each statement of init, initVulkan, mainLoop and cleanup that calls a   *)
(* collaborator is one step; the collaborators' outcomes are the inputs.   *)
(***************************************************************************)
EXTENDS Integers, Sequences, FiniteSets, TLC

\* ---------------------------------------------------------------- bounds
MaxEvents == 2
MaxExt == 2
MaxDev == 1

\* ------------------------------------------------------- program constants
GLFW_RELEASE == 0
GLFW_PRESS == 1
GLFW_REPEAT == 2
GLFW_MOUSE_BUTTON_LEFT == 0
GLFW_MOUSE_BUTTON_RIGHT == 1
GLFW_MOUSE_BUTTON_MIDDLE == 2

\* ------------------------------------------------------------ input sets
Widths == {640}
Heights == {480}
Titles == {"a", "b"}
Keys == {65, 256}
Scancodes == {38}
Mods == {0}
Actions == {0, 1, 2, 3}
Buttons == {0, 1, 2, 3}

KeyEvents ==
  [type : {"key"}, key : Keys, scancode : Scancodes, action : Actions, mods : Mods]

MouseEvents ==
  [type : {"mouse"}, button : Buttons, action : Actions, mods : Mods]

CloseEvents ==
  [type : {"close"}]

Events == CloseEvents \cup KeyEvents \cup MouseEvents

VARIABLES
  pc,               \* position of the caller / of the running member function
  args,             \* init's parameters (width, height, title)
  ret,              \* init's return value: "none" until init returns
  mWindow,          \* Window::mWindow: "null" or the handle value "win"
  mApplicationName, \* Window::mApplicationName
  mInstance,        \* Window::mInstance: "null" or "inst"
  mSurface,         \* Window::mSurface: "null" or "surf"
  glfwInited,       \* provider: library initialised
  windowLive,       \* provider: the window object exists
  instanceLive,     \* rendering API: the instance object exists
  surfaceLive,      \* rendering API: the surface object exists
  userPointer,      \* provider: the window's user pointer
  callbacks,        \* provider: callbacks registered on the window
  closeFlag,        \* provider: the window's should-close flag
  pending,          \* provider: events queued for the window
  batch,            \* provider: events the running glfwPollEvents still delivers
  cur,              \* the event whose callback is running
  posted,           \* number of events the environment has produced
  calls,            \* collaborator calls made by init, initVulkan and cleanup, in order
  log,              \* lines handed to Logger::log, in order
  fault,            \* which collaborator call failed ("none" if none did)
  loopRan,          \* mainLoop has been entered
  polled,           \* events taken by glfwPollEvents, in order
  handled           \* events passed to the handle*Events functions, in order

vars == <<pc, args, ret, mWindow, mApplicationName, mInstance, mSurface,
          glfwInited, windowLive, instanceLive, surfaceLive, userPointer,
          callbacks, closeFlag, pending, batch, cur, posted, calls, log,
          fault, loopRan, polled, handled>>

handles == <<mWindow, mApplicationName, mInstance, mSurface>>
vulkan == <<instanceLive, surfaceLive>>
provider == <<glfwInited, windowLive, userPointer, callbacks, closeFlag, pending>>
polling == <<batch, cur, loopRan, polled, handled>>

NoEvent == [type |-> "none"]

Line(fn, msg) == [fn |-> fn, msg |-> msg]

Init ==
  /\ pc = "start"
  /\ args \in [width : Widths, height : Heights, title : Titles]
  /\ ret = "none"
  /\ mWindow = "null"
  /\ mApplicationName = ""
  /\ mInstance = "null"
  /\ mSurface = "null"
  /\ glfwInited = FALSE
  /\ windowLive = FALSE
  /\ instanceLive = FALSE
  /\ surfaceLive = FALSE
  /\ userPointer = "null"
  /\ callbacks = {}
  /\ closeFlag = FALSE
  /\ pending = <<>>
  /\ batch = <<>>
  /\ cur = NoEvent
  /\ posted = 0
  /\ calls = <<>>
  /\ log = <<>>
  /\ fault = "none"
  /\ loopRan = FALSE
  /\ polled = <<>>
  /\ handled = <<>>

\* glfwTerminate, called after the calls in `made`: the provider destroys
\* every remaining window and shuts down.
glfwTerminate(made) ==
  /\ glfwInited' = FALSE
  /\ windowLive' = FALSE
  /\ userPointer' = "null"
  /\ callbacks' = {}
  /\ pending' = <<>>
  /\ closeFlag' = closeFlag
  /\ calls' = Append(made, "glfwTerminate")

\* ------------------------------------------------------------------ init
init_glfwInit ==
  /\ pc = "start"
  /\ \E ok \in BOOLEAN :
       IF ok
         THEN /\ glfwInited' = TRUE
              /\ pc' = "i_support"
              /\ UNCHANGED <<ret, log, fault>>
         ELSE /\ log' = Append(log, Line("init", "glfwInit() error"))
              /\ ret' = "false"
              /\ fault' = "ProviderInitFailure"
              /\ pc' = "init_failed"
              /\ UNCHANGED glfwInited
  /\ calls' = Append(calls, "glfwInit")
  /\ UNCHANGED <<args, handles, vulkan, windowLive, userPointer, callbacks,
                 closeFlag, pending, polling, posted>>

\* Variant: the unsupported branch returns without shutting the provider down.
init_glfwVulkanSupported_noTerminate ==
  /\ pc = "i_support"
  /\ \E ok \in BOOLEAN :
       IF ok
         THEN /\ mApplicationName' = args.title
              /\ pc' = "i_window"
              /\ UNCHANGED <<ret, log, fault>>
         ELSE /\ log' = Append(log, Line("init", "Vulkan is not supported"))
              /\ ret' = "false"
              /\ fault' = "RenderingAPIUnsupported"
              /\ pc' = "init_failed"
              /\ UNCHANGED mApplicationName
  /\ calls' = Append(calls, "glfwVulkanSupported")
  /\ UNCHANGED <<args, mWindow, mInstance, mSurface, vulkan, provider,
                 polling, posted>>

init_glfwVulkanSupported ==
  /\ pc = "i_support"
  /\ \E ok \in BOOLEAN :
       IF ok
         THEN /\ mApplicationName' = args.title
              /\ pc' = "i_window"
              /\ calls' = Append(calls, "glfwVulkanSupported")
              /\ UNCHANGED <<ret, log, fault, provider>>
         ELSE /\ glfwTerminate(Append(calls, "glfwVulkanSupported"))
              /\ log' = Append(log, Line("init", "Vulkan is not supported"))
              /\ ret' = "false"
              /\ fault' = "RenderingAPIUnsupported"
              /\ pc' = "init_failed"
              /\ UNCHANGED mApplicationName
  /\ UNCHANGED <<args, mWindow, mInstance, mSurface, vulkan, polling, posted>>

init_glfwCreateWindow ==
  /\ pc = "i_window"
  /\ \E ok \in BOOLEAN :
       IF ok
         THEN /\ mWindow' = "win"
              /\ windowLive' = TRUE
              /\ calls' = Append(calls, "glfwCreateWindow")
              /\ pc' = "v_extensions"
              /\ UNCHANGED <<ret, log, fault, glfwInited, userPointer,
                             callbacks, closeFlag, pending>>
         ELSE /\ mWindow' = "null"
              /\ log' = Append(log, Line("init", "Could not create window"))
              /\ glfwTerminate(Append(calls, "glfwCreateWindow"))
              /\ ret' = "false"
              /\ fault' = "WindowCreationFailure"
              /\ pc' = "init_failed"
  /\ UNCHANGED <<args, mApplicationName, mInstance, mSurface, vulkan,
                 polling, posted>>

\* ------------------------------------------------------------ initVulkan
\* The lines logged for `n` reported extensions: the count, then one per name.
ExtensionLines(n) ==
  <<Line("initVulkan", "Found Vulkan extensions")>>
    \o [i \in 1..n |-> Line("initVulkan", "extension")]

\* Variant: an empty extension list is logged but does not end initVulkan.
initVulkan_extensions_noReturn ==
  /\ pc = "v_extensions"
  /\ \E extensionCount \in 0..MaxExt :
       IF extensionCount = 0
         THEN /\ log' = Append(log, Line("initVulkan", "no Vulkan extensions found"))
              /\ fault' = "MissingRequiredExtensions"
         ELSE /\ log' = log \o ExtensionLines(extensionCount)
              /\ UNCHANGED fault
  /\ pc' = "v_instance"
  /\ calls' = Append(calls, "glfwGetRequiredInstanceExtensions")
  /\ UNCHANGED <<args, ret, handles, vulkan, provider, polling, posted>>

initVulkan_extensions ==
  /\ pc = "v_extensions"
  /\ \E extensionCount \in 0..MaxExt :
       IF extensionCount = 0
         THEN /\ log' = Append(log, Line("initVulkan", "no Vulkan extensions found"))
              /\ fault' = "MissingRequiredExtensions"
              /\ pc' = "i_vulkan_failed"
         ELSE /\ log' = log \o ExtensionLines(extensionCount)
              /\ pc' = "v_instance"
              /\ UNCHANGED fault
  /\ calls' = Append(calls, "glfwGetRequiredInstanceExtensions")
  /\ UNCHANGED <<args, ret, handles, vulkan, provider, polling, posted>>

initVulkan_vkCreateInstance ==
  /\ pc = "v_instance"
  /\ \E ok \in BOOLEAN :
       IF ok
         THEN /\ mInstance' = "inst"
              /\ instanceLive' = TRUE
              /\ pc' = "v_devices"
              /\ UNCHANGED <<log, fault>>
         ELSE /\ log' = Append(log, Line("initVulkan", "Could not create Vulkan instance"))
              /\ fault' = "InstanceCreationFailure"
              /\ pc' = "i_vulkan_failed"
              /\ UNCHANGED <<mInstance, instanceLive>>
  /\ calls' = Append(calls, "vkCreateInstance")
  /\ UNCHANGED <<args, ret, mWindow, mApplicationName, mSurface, surfaceLive,
                 provider, polling, posted>>

\* Variant: a device count of zero does not end initVulkan.
initVulkan_vkEnumeratePhysicalDevices_noCheck ==
  /\ pc = "v_devices"
  /\ \E physicalDeviceCount \in 0..MaxDev :
       /\ log' = Append(log, Line("initVulkan", "Found physical device(s)"))
       /\ fault' = IF physicalDeviceCount = 0 THEN "NoCapableDevice" ELSE fault
  /\ calls' = calls \o <<"vkEnumeratePhysicalDevices", "vkEnumeratePhysicalDevices">>
  /\ pc' = "v_surface"
  /\ UNCHANGED <<args, ret, handles, vulkan, provider, polling, posted>>

initVulkan_vkEnumeratePhysicalDevices ==
  /\ pc = "v_devices"
  /\ \E physicalDeviceCount \in 0..MaxDev :
       IF physicalDeviceCount = 0
         THEN /\ log' = Append(log, Line("initVulkan", "No Vulkan capable GPU found"))
              /\ calls' = Append(calls, "vkEnumeratePhysicalDevices")
              /\ fault' = "NoCapableDevice"
              /\ pc' = "i_vulkan_failed"
         ELSE /\ log' = Append(log, Line("initVulkan", "Found physical device(s)"))
              /\ calls' = calls \o <<"vkEnumeratePhysicalDevices",
                                     "vkEnumeratePhysicalDevices">>
              /\ pc' = "v_surface"
              /\ UNCHANGED fault
  /\ UNCHANGED <<args, ret, handles, vulkan, provider, polling, posted>>

initVulkan_glfwCreateWindowSurface ==
  /\ pc = "v_surface"
  /\ \E ok \in BOOLEAN :
       IF ok
         THEN /\ mSurface' = "surf"
              /\ surfaceLive' = TRUE
              /\ pc' = "i_callbacks"
              /\ UNCHANGED <<log, fault>>
         ELSE /\ log' = Append(log, Line("initVulkan", "Could not create Vulkan surface"))
              /\ fault' = "SurfaceCreationFailure"
              /\ pc' = "i_vulkan_failed"
              /\ UNCHANGED <<mSurface, surfaceLive>>
  /\ calls' = Append(calls, "glfwCreateWindowSurface")
  /\ UNCHANGED <<args, ret, mWindow, mApplicationName, mInstance, instanceLive,
                 provider, polling, posted>>

\* Variant: init returns after a failed initVulkan without glfwTerminate.
init_initVulkanFailed_noTerminate ==
  /\ pc = "i_vulkan_failed"
  /\ log' = Append(log, Line("init", "Could not init Vulkan"))
  /\ ret' = "false"
  /\ pc' = "init_failed"
  /\ UNCHANGED <<args, handles, vulkan, provider, polling, posted, calls, fault>>

\* init after initVulkan returned false.
init_initVulkanFailed ==
  /\ pc = "i_vulkan_failed"
  /\ log' = Append(log, Line("init", "Could not init Vulkan"))
  /\ glfwTerminate(calls)
  /\ ret' = "false"
  /\ pc' = "init_failed"
  /\ UNCHANGED <<args, handles, vulkan, polling, posted, fault>>

\* init after initVulkan returned true.
init_setCallbacks ==
  /\ pc = "i_callbacks"
  /\ userPointer' = "this"
  /\ callbacks' = {"close", "key", "mouse"}
  /\ log' = Append(log, Line("init", "Window successfully initialized"))
  /\ ret' = "true"
  /\ pc' = "ready"
  /\ UNCHANGED <<args, handles, vulkan, glfwInited, windowLive, closeFlag,
                 pending, polling, posted, calls, fault>>

\* ------------------------------------------------------------- provider
\* The windowing system queues an event for the window.
PostEvent ==
  /\ windowLive
  /\ posted < MaxEvents
  /\ \E e \in Events : pending' = Append(pending, e)
  /\ posted' = posted + 1
  /\ UNCHANGED <<pc, args, ret, handles, vulkan, glfwInited, windowLive,
                 userPointer, callbacks, closeFlag, polling, calls, log, fault>>

\* -------------------------------------------------------------- mainLoop
mainLoop ==
  /\ pc = "ready"
  /\ loopRan' = TRUE
  /\ pc' = "loop_check"
  /\ UNCHANGED <<args, ret, handles, vulkan, provider, batch, cur, polled,
                 handled, posted, calls, log, fault>>

\* Variant: the loop condition is not tested; mainLoop returns at once.
mainLoop_check_noTest ==
  /\ pc = "loop_check"
  /\ pc' = "ready"
  /\ UNCHANGED <<args, ret, handles, vulkan, provider, polling, posted,
                 calls, log, fault>>

\* while (!glfwWindowShouldClose(mWindow)) glfwPollEvents();
mainLoop_check ==
  /\ pc = "loop_check"
  /\ IF closeFlag
       THEN /\ pc' = "ready"
            /\ UNCHANGED <<pending, batch, polled>>
       ELSE /\ pc' = "polling"
            /\ batch' = pending
            /\ pending' = <<>>
            /\ polled' = polled \o pending
  /\ UNCHANGED <<args, ret, handles, vulkan, glfwInited, windowLive,
                 userPointer, callbacks, closeFlag, cur, loopRan, handled,
                 posted, calls, log, fault>>

\* glfwPollEvents takes the next event: a close request sets the window's
\* close flag, and the callback registered for the event is invoked.
glfwPollEvents_deliver ==
  /\ pc = "polling"
  /\ batch # <<>>
  /\ batch' = Tail(batch)
  /\ closeFlag' = (closeFlag \/ Head(batch).type = "close")
  /\ IF Head(batch).type \in callbacks
       THEN /\ cur' = Head(batch)
            /\ pc' = "handler"
       ELSE UNCHANGED <<cur, pc>>
  /\ UNCHANGED <<args, ret, handles, vulkan, glfwInited, windowLive,
                 userPointer, callbacks, pending, loopRan, polled,
                 handled, posted, calls, log, fault>>

glfwPollEvents_return ==
  /\ pc = "polling"
  /\ batch = <<>>
  /\ pc' = "loop_check"
  /\ UNCHANGED <<args, ret, handles, vulkan, provider, polling, posted,
                 calls, log, fault>>

\* -------------------------------------------------------- event handlers
KeyActionName(action) ==
  CASE action = GLFW_PRESS -> "pressed"
    [] action = GLFW_RELEASE -> "released"
    [] action = GLFW_REPEAT -> "repeated"
    [] OTHER -> "unknown"

MouseActionName(action) ==
  CASE action = GLFW_PRESS -> "pressed"
    [] action = GLFW_RELEASE -> "released"
    [] OTHER -> "unknown"

MouseButtonName(button) ==
  CASE button = GLFW_MOUSE_BUTTON_LEFT -> "left"
    [] button = GLFW_MOUSE_BUTTON_MIDDLE -> "middle"
    [] button = GLFW_MOUSE_BUTTON_RIGHT -> "right"
    [] OTHER -> "unknown"

\* glfwGetKeyName(key, 0): the printable key's name, NULL for any other key.
glfwGetKeyName(key) ==
  IF key = 65 THEN "a" ELSE "(null)"

handleWindowCloseEvents ==
  /\ pc = "handler"
  /\ cur.type = "close"
  /\ log' = Append(log, Line("handleWindowCloseEvents", "Window close event... bye!"))
  /\ handled' = Append(handled, cur)
  /\ cur' = NoEvent
  /\ pc' = "polling"
  /\ UNCHANGED <<args, ret, handles, vulkan, provider, batch, loopRan, polled,
                 posted, calls, fault>>

\* Variant: the key handler requests the window to close on Escape (256).
handleKeyEvents_closeOnEscape(key, scancode, action, mods) ==
  /\ pc = "handler"
  /\ log' = Append(log, [fn |-> "handleKeyEvents",
                         keyName |-> glfwGetKeyName(key),
                         key |-> key,
                         scancode |-> scancode,
                         actionName |-> KeyActionName(action)])
  /\ closeFlag' = (closeFlag \/ key = 256)
  /\ handled' = Append(handled, cur)
  /\ cur' = NoEvent
  /\ pc' = "polling"
  /\ UNCHANGED <<args, ret, handles, vulkan, glfwInited, windowLive,
                 userPointer, callbacks, pending, batch, loopRan, polled,
                 posted, calls, fault>>

handleKeyEvents(key, scancode, action, mods) ==
  /\ pc = "handler"
  /\ log' = Append(log, [fn |-> "handleKeyEvents",
                         keyName |-> glfwGetKeyName(key),
                         key |-> key,
                         scancode |-> scancode,
                         actionName |-> KeyActionName(action)])
  /\ handled' = Append(handled, cur)
  /\ cur' = NoEvent
  /\ pc' = "polling"
  /\ UNCHANGED <<args, ret, handles, vulkan, provider, batch, loopRan, polled,
                 posted, calls, fault>>

handleMouseButtonEvents(button, action, mods) ==
  /\ pc = "handler"
  /\ log' = Append(log, [fn |-> "handleMouseButtonEvents",
                         mouseButtonName |-> MouseButtonName(button),
                         button |-> button,
                         actionName |-> MouseActionName(action)])
  /\ handled' = Append(handled, cur)
  /\ cur' = NoEvent
  /\ pc' = "polling"
  /\ UNCHANGED <<args, ret, handles, vulkan, provider, batch, loopRan, polled,
                 posted, calls, fault>>

\* The lambdas registered by init: recover the Window and call its handler.
KeyCallback ==
  /\ cur.type = "key"
  /\ handleKeyEvents(cur.key, cur.scancode, cur.action, cur.mods)

MouseButtonCallback ==
  /\ cur.type = "mouse"
  /\ handleMouseButtonEvents(cur.button, cur.action, cur.mods)

\* --------------------------------------------------------------- cleanup
cleanup ==
  /\ pc = "ready"
  /\ log' = Append(log, Line("cleanup", "Terminating Window"))
  /\ pc' = "c_surface"
  /\ UNCHANGED <<args, ret, handles, vulkan, provider, polling, posted,
                 calls, fault>>

\* Variant: cleanup destroys the instance where it should destroy the surface.
cleanup_vkDestroySurfaceKHR_instanceFirst ==
  /\ pc = "c_surface"
  /\ instanceLive' = FALSE
  /\ calls' = Append(calls, "vkDestroySurfaceKHR")
  /\ pc' = "c_instance"
  /\ UNCHANGED <<args, ret, handles, surfaceLive, provider, polling, posted,
                 log, fault>>

cleanup_vkDestroySurfaceKHR ==
  /\ pc = "c_surface"
  /\ surfaceLive' = FALSE
  /\ calls' = Append(calls, "vkDestroySurfaceKHR")
  /\ pc' = "c_instance"
  /\ UNCHANGED <<args, ret, handles, instanceLive, provider, polling, posted,
                 log, fault>>

\* Variant: cleanup leaves out vkDestroyInstance.
cleanup_vkDestroyInstance_skipped ==
  /\ pc = "c_instance"
  /\ pc' = "c_window"
  /\ UNCHANGED <<args, ret, handles, vulkan, provider, polling, posted,
                 calls, log, fault>>

cleanup_vkDestroyInstance ==
  /\ pc = "c_instance"
  /\ instanceLive' = FALSE
  /\ calls' = Append(calls, "vkDestroyInstance")
  /\ pc' = "c_window"
  /\ UNCHANGED <<args, ret, handles, surfaceLive, provider, polling, posted,
                 log, fault>>

\* Variant: destroying the window delivers its queued events to the handlers.
cleanup_glfwDestroyWindow_flushes ==
  /\ pc = "c_window"
  /\ windowLive' = FALSE
  /\ userPointer' = "null"
  /\ callbacks' = {}
  /\ handled' = handled \o pending
  /\ pending' = <<>>
  /\ calls' = Append(calls, "glfwDestroyWindow")
  /\ pc' = "c_terminate"
  /\ UNCHANGED <<args, ret, handles, vulkan, glfwInited, closeFlag, batch,
                 cur, loopRan, polled, posted, log, fault>>

cleanup_glfwDestroyWindow ==
  /\ pc = "c_window"
  /\ windowLive' = FALSE
  /\ userPointer' = "null"
  /\ callbacks' = {}
  /\ pending' = <<>>
  /\ calls' = Append(calls, "glfwDestroyWindow")
  /\ pc' = "c_terminate"
  /\ UNCHANGED <<args, ret, handles, vulkan, glfwInited, closeFlag, polling,
                 posted, log, fault>>

cleanup_glfwTerminate ==
  /\ pc = "c_terminate"
  /\ glfwTerminate(calls)
  /\ pc' = "done"
  /\ UNCHANGED <<args, ret, handles, vulkan, polling, posted, log, fault>>

Next ==
  \/ init_glfwInit
  \/ init_glfwVulkanSupported
  \/ init_glfwCreateWindow
  \/ initVulkan_extensions
  \/ initVulkan_vkCreateInstance
  \/ initVulkan_vkEnumeratePhysicalDevices
  \/ initVulkan_glfwCreateWindowSurface
  \/ init_initVulkanFailed
  \/ init_setCallbacks
  \/ PostEvent
  \/ mainLoop
  \/ mainLoop_check
  \/ glfwPollEvents_deliver
  \/ glfwPollEvents_return
  \/ handleWindowCloseEvents
  \/ KeyCallback
  \/ MouseButtonCallback
  \/ cleanup
  \/ cleanup_vkDestroySurfaceKHR
  \/ cleanup_vkDestroyInstance
  \/ cleanup_glfwDestroyWindow
  \/ cleanup_glfwTerminate

Spec == Init /\ [][Next]_vars

\* ================================================================ claims
IsRelease(c) ==
  c \in {"vkDestroySurfaceKHR", "vkDestroyInstance", "glfwDestroyWindow", "glfwTerminate"}

ReleaseCalls == SelectSeq(calls, IsRelease)

StartupCalls == SelectSeq(calls, LAMBDA c : ~IsRelease(c))

Terminations == Len(SelectSeq(calls, LAMBDA c : c = "glfwTerminate"))

Called(c) == \E i \in 1..Len(calls) : calls[i] = c

CleanupOrder ==
  <<"vkDestroySurfaceKHR", "vkDestroyInstance", "glfwDestroyWindow", "glfwTerminate">>

StartupOrder ==
  <<"glfwInit", "glfwVulkanSupported", "glfwCreateWindow",
    "glfwGetRequiredInstanceExtensions", "vkCreateInstance",
    "vkEnumeratePhysicalDevices", "vkEnumeratePhysicalDevices",
    "glfwCreateWindowSurface">>

\* Position in StartupOrder of the call at which each failure is detected.
FailureStep(f) ==
  CASE f = "ProviderInitFailure" -> 1
    [] f = "RenderingAPIUnsupported" -> 2
    [] f = "WindowCreationFailure" -> 3
    [] f = "MissingRequiredExtensions" -> 4
    [] f = "InstanceCreationFailure" -> 5
    [] f = "NoCapableDevice" -> 6
    [] f = "SurfaceCreationFailure" -> 8

Failures ==
  {"ProviderInitFailure", "RenderingAPIUnsupported", "WindowCreationFailure",
   "MissingRequiredExtensions", "InstanceCreationFailure", "NoCapableDevice",
   "SurfaceCreationFailure"}

InCleanup == pc \in {"c_surface", "c_instance", "c_window", "c_terminate", "done"}

\* Release calls cleanup has made when it stands at the current position.
CleanupProgress ==
  CASE pc = "c_instance" -> 1
    [] pc = "c_window" -> 2
    [] pc = "c_terminate" -> 3
    [] pc = "done" -> 4
    [] OTHER -> 0

\* C1: when init has returned failure, nothing acquired by that call is still
\* live: no window, no instance, no surface, and the provider is shut down.
C1_FailedInitLeavesNothingLive ==
  pc = "init_failed" =>
    /\ ~windowLive
    /\ ~instanceLive
    /\ ~surfaceLive
    /\ ~glfwInited

\* C2: cleanup after a successful init makes exactly the four release calls
\* destroy surface, destroy instance, destroy window, provider shutdown, in that
\* order, none out of order and none repeated.
C2_CleanupReleaseOrder ==
  ret = "true" => ReleaseCalls = SubSeq(CleanupOrder, 1, CleanupProgress)

C2_Witness ==
  /\ pc = "done"
  /\ ReleaseCalls = CleanupOrder

\* C3: when the provider initialises but reports the rendering API unsupported,
\* init returns failure after exactly one provider shutdown, and no window,
\* instance or surface creation call is made.
C3_UnsupportedApi ==
  fault = "RenderingAPIUnsupported" =>
    /\ pc = "init_failed"
    /\ ret = "false"
    /\ Terminations = 1
    /\ ~Called("glfwCreateWindow")
    /\ ~Called("vkCreateInstance")
    /\ ~Called("glfwCreateWindowSurface")

C3_Witness ==
  /\ fault = "RenderingAPIUnsupported"
  /\ pc = "init_failed"
  /\ calls = <<"glfwInit", "glfwVulkanSupported", "glfwTerminate">>

\* C4: when the provider reports zero required extensions, initVulkan fails
\* without calling instance or surface creation, and mInstance and mSurface
\* keep their null defaults.
C4_NoExtensions ==
  fault = "MissingRequiredExtensions" =>
    /\ pc \in {"i_vulkan_failed", "init_failed"}
    /\ ~Called("vkCreateInstance")
    /\ ~Called("glfwCreateWindowSurface")
    /\ mInstance = "null"
    /\ mSurface = "null"
    /\ ~instanceLive
    /\ ~surfaceLive

C4_Witness ==
  /\ fault = "MissingRequiredExtensions"
  /\ pc = "i_vulkan_failed"
  /\ Called("glfwGetRequiredInstanceExtensions")

\* C5: mainLoop returns only once the close flag is true; a check that sees the
\* flag true is followed by the return and by no further poll; and at the
\* return every event taken by a poll has been dispatched to its handler.
C5_MainLoopReturn ==
  /\ [](pc = "ready" /\ loopRan => closeFlag /\ batch = <<>> /\ handled = polled)
  /\ [][pc = "loop_check" /\ pc' = "ready" => closeFlag]_vars
  /\ [][pc = "loop_check" /\ closeFlag => pc' \in {"loop_check", "ready"}]_vars

C5_Witness ==
  /\ pc = "ready"
  /\ loopRan
  /\ closeFlag
  /\ Len(handled) = 2
  /\ handled[1].type = "close"
  /\ handled[2].type = "key"

\* C6: handlers run only inside mainLoop's poll: as long as mainLoop has not
\* been entered (init, then cleanup directly), no handler is invoked, whatever
\* events are pending.
C6_NoHandlerOutsideMainLoop ==
  ~loopRan =>
    /\ handled = <<>>
    /\ pc # "handler"
    /\ \A i \in 1..Len(log) : log[i].fn \in {"init", "initVulkan", "cleanup"}

C6_Witness ==
  /\ pc = "done"
  /\ ~loopRan
  /\ posted > 0

\* C7: in every state, a valid surface implies a valid window and a valid
\* instance.
C7_SurfaceNeedsWindowAndInstance ==
  surfaceLive => windowLive /\ instanceLive

C7_Witness ==
  /\ pc = "c_surface"
  /\ loopRan
  /\ surfaceLive
  /\ windowLive
  /\ instanceLive

\* C8: a handler leaves mWindow, mApplicationName, mInstance, mSurface and the
\* close flag unchanged; all it does is append one line to the log.
C8_HandlersOnlyLog ==
  [][pc = "handler" /\ pc' # "handler" =>
       /\ UNCHANGED <<mWindow, mApplicationName, mInstance, mSurface, closeFlag>>
       /\ UNCHANGED <<vulkan, glfwInited, windowLive, userPointer, callbacks,
                      pending, calls, ret>>
       /\ Len(log') = Len(log) + 1
       /\ SubSeq(log', 1, Len(log)) = log]_vars

C8_Witness ==
  /\ Len(handled) = 2
  /\ handled[1].type = "key"
  /\ handled[1].key = 256
  /\ handled[2].type = "mouse"
  /\ ~closeFlag

\* C9: init returns success exactly when no startup call failed; each of the
\* seven failures ends startup at the call where it occurs, no later startup
\* call being made; after a successful return window, instance and surface
\* are valid and the three callbacks are registered.
C9_InitSuccessIffNoFailure ==
  /\ ret # "none" => (ret = "true" <=> fault = "none")
  /\ fault \in Failures =>
       /\ pc \in {"i_vulkan_failed", "init_failed"}
       /\ StartupCalls = SubSeq(StartupOrder, 1, FailureStep(fault))
  /\ (ret = "true" /\ ~InCleanup) =>
       /\ StartupCalls = StartupOrder
       /\ mWindow = "win" /\ windowLive
       /\ mInstance = "inst" /\ instanceLive
       /\ mSurface = "surf" /\ surfaceLive
       /\ callbacks = {"close", "key", "mouse"}

C9_Witness ==
  /\ pc = "init_failed"
  /\ fault = "NoCapableDevice"
  /\ ret = "false"

\* C10: provider init and shutdown are paired: no shutdown call when the
\* provider failed to initialise, exactly one before init returns on any later
\* failure, none after a successful init until cleanup, which makes exactly one.
C10_InitShutdownPairing ==
  /\ fault = "ProviderInitFailure" => Terminations = 0
  /\ (pc = "init_failed" /\ fault # "ProviderInitFailure") => Terminations = 1
  /\ ret = "none" => Terminations = 0
  /\ (ret = "true" /\ pc # "done") => Terminations = 0
  /\ pc = "done" => Terminations = 1

C10_Witness ==
  /\ pc = "init_failed"
  /\ fault = "SurfaceCreationFailure"
  /\ Terminations = 1
====
